---------------------------- MODULE Spec2Model ----------------------------
(***************************************************************************)
(* Model of the chat hook useChat (src/src/hooks/useChat.ts): the send /   *)
(* poll cycle of sendMessage and pollWorkflowMessages, with the operations *)
(* stopOperation (cancel) and clearMessages (clear).                       *)
(*                                                                         *)
(* A text is a sequence of one-character strings, so that trimming and     *)
(* concatenation are computed and not assumed.                             *)
(***************************************************************************)
EXTENDS Integers, Sequences, FiniteSets, TLC

(***************************************************************************)
(* Bounds of the model.                                                    *)
(***************************************************************************)
\* accepted submits (send/poll cycles) in one behaviour
MaxCycles == 2
\* length of the messages list a status response reports
MaxEvents == 2
\* events folded into the accumulator within one cycle
MaxFolds == 3
\* reloads of the page in one behaviour
MaxReloads == 1

(***************************************************************************)
(* Program constants.                                                      *)
(***************************************************************************)
maxConsecutiveErrors == 5
updateThrottle == 500
RetryDelay == 3000
\* variant: the wait after a successful response is the retry wait
PollDelayAsRetryDelay == RetryDelay
\* variant: the wait after a successful iteration is no longer than the
\* throttle window
PollDelayWithinThrottle == updateThrottle
PollDelay == 2000

Cycles == 1 .. MaxCycles

(***************************************************************************)
(* Texts.                                                                  *)
(***************************************************************************)
NoResponseReceived == <<"N", "o", " ", "r", "e", "s", "p", "o", "n", "s", "e", " ", "r", "e", "c", "e", "i", "v", "e", "d">>
PollFailedPlaceholder == <<"E", "r", "r", "o", "r", ":", " ", "F", "a", "i", "l", "e", "d", " ", "t", "o", " ", "p", "o", "l", "l", " ", "w", "o", "r", "k", "f", "l", "o", "w", " ", "m", "e", "s", "s", "a", "g", "e", "s", " ", "a", "f", "t", "e", "r", " ", "m", "u", "l", "t", "i", "p", "l", "e", " ", "a", "t", "t", "e", "m", "p", "t", "s">>
ErrorPrefix == <<"E", "r", "r", "o", "r", ":", " ">>
ResourceNotFound == <<"R", "e", "s", "o", "u", "r", "c", "e", " ", "n", "o", "t", " ", "f", "o", "u", "n", "d">>
HttpErrorMessage == <<"H", "T", "T", "P", " ", "e", "r", "r", "o", "r", "!", " ", "s", "t", "a", "t", "u", "s", ":", " ", "5", "0", "0">>
NetworkErrorMessage == <<"F", "a", "i", "l", "e", "d", " ", "t", "o", " ", "f", "e", "t", "c", "h">>
BlankLine == <<"\n", "\n">>

\* tool-message contents: JSON texts and one text that is not JSON
JsonError == <<"{", "\"", "e", "r", "r", "o", "r", "\"", ":", "\"", "x", "\"", "}">>
JsonNotFound == <<"{", "\"", "f", "o", "u", "n", "d", "\"", ":", "f", "a", "l", "s", "e", "}">>
JsonErrorNotFound == <<"{", "\"", "e", "r", "r", "o", "r", "\"", ":", "\"", "x", "\"", ",", "\"", "f", "o", "u", "n", "d", "\"", ":", "f", "a", "l", "s", "e", "}">>
JsonEmptyErrorNotFound == <<"{", "\"", "e", "r", "r", "o", "r", "\"", ":", "\"", "\"", ",", "\"", "f", "o", "u", "n", "d", "\"", ":", "f", "a", "l", "s", "e", "}">>
JsonOther == <<"{", "\"", "o", "k", "\"", ":", "1", "}">>
NotJson == <<"{", "o", "o", "p", "s">>

\* String.prototype.trim: white space is removed at both ends only
IsWhiteSpace(ch) == ch \in {" ", "\n", "\t"}

RECURSIVE TrimStart(_)
TrimStart(s) ==
    IF s = <<>> THEN <<>>
    ELSE IF IsWhiteSpace(Head(s)) THEN TrimStart(Tail(s))
    ELSE s

RECURSIVE TrimEnd(_)
TrimEnd(s) ==
    IF s = <<>> THEN <<>>
    ELSE IF IsWhiteSpace(s[Len(s)]) THEN TrimEnd(SubSeq(s, 1, Len(s) - 1))
    ELSE s

Trim(s) == TrimEnd(TrimStart(s))

(***************************************************************************)
(* Workflow events of a status response: [type, content]; an absent or     *)
(* empty content is the empty text (both are falsy in the source).         *)
(***************************************************************************)
Ev(t, c) == [type |-> t, content |-> c]

\* JSON.parse of a tool-message content, on the contents the model uses:
\* ok = FALSE is the SyntaxError; hasError tells whether the parsed object has
\* an error field and error is its value (the empty text is falsy); found is
\* "false" only when the parsed object has found: false
JSONParse(content) ==
    CASE content = JsonError ->
           [ok |-> TRUE, hasError |-> TRUE, error |-> <<"x">>, found |-> "undefined"]
      [] content = JsonNotFound ->
           [ok |-> TRUE, hasError |-> FALSE, error |-> <<>>, found |-> "false"]
      [] content = JsonErrorNotFound ->
           [ok |-> TRUE, hasError |-> TRUE, error |-> <<"x">>, found |-> "false"]
      [] content = JsonEmptyErrorNotFound ->
           [ok |-> TRUE, hasError |-> TRUE, error |-> <<>>, found |-> "false"]
      [] content = JsonOther ->
           [ok |-> TRUE, hasError |-> FALSE, error |-> <<>>, found |-> "undefined"]
      [] OTHER ->
           [ok |-> FALSE, hasError |-> FALSE, error |-> <<>>, found |-> "undefined"]

\* variant: the content of assistant events is parsed too
RenderContentParsingAll(message) ==
    LET parsed == JSONParse(message.content) IN
    IF ~parsed.ok THEN message.content
    ELSE IF parsed.error /= <<>> THEN ErrorPrefix \o parsed.error
    ELSE IF parsed.found = "false" THEN ResourceNotFound
    ELSE message.content

\* the text appended for a folded event (before the blank-line separator)
RenderContent(message) ==
    IF message.type = "ToolMessage"
    THEN LET parsed == JSONParse(message.content) IN
         IF ~parsed.ok THEN message.content
         ELSE IF parsed.error /= <<>> THEN ErrorPrefix \o parsed.error
         ELSE IF parsed.found = "false" THEN ResourceNotFound
         ELSE message.content
    ELSE message.content

\* variant: every event with content is appended, whatever its type
IsFoldedOfAnyType(message) == message.content /= <<>>

\* the condition under which an event is appended to the accumulator
IsFolded(message) ==
    /\ \/ message.type = "AIMessage"
       \/ (message.type = "ToolMessage" /\ message.content /= <<>>)
    /\ message.content /= <<>>

\* variant: the slice ignores the cursor and examines the whole list
SliceWholeList(messages, processedMessageCount) == messages

\* data.messages.slice(processedMessageCount)
SliceFrom(messages, processedMessageCount) ==
    SubSeq(messages, processedMessageCount + 1, Len(messages))

\* variant: each folded event overwrites the accumulator (= for +=)
RECURSIVE FoldMessagesOverwriting(_, _)
FoldMessagesOverwriting(accumulatedContent, newMessages) ==
    IF newMessages = <<>> THEN accumulatedContent
    ELSE FoldMessagesOverwriting(
           IF IsFolded(Head(newMessages))
           THEN RenderContent(Head(newMessages)) \o BlankLine
           ELSE accumulatedContent,
           Tail(newMessages))

\* the for-loop over newMessages: the accumulator after folding them
RECURSIVE FoldMessages(_, _)
FoldMessages(accumulatedContent, newMessages) ==
    IF newMessages = <<>> THEN accumulatedContent
    ELSE FoldMessages(
           IF IsFolded(Head(newMessages))
           THEN accumulatedContent \o RenderContent(Head(newMessages)) \o BlankLine
           ELSE accumulatedContent,
           Tail(newMessages))


(***************************************************************************)
(* State.                                                                  *)
(*   messages, isLoading, error   the hook's ChatState                     *)
(*   closureIsLoading   state.isLoading as captured by the sendMessage     *)
(*                      closure the caller holds (refreshed by a render)   *)
(*   abortControllerRef the controller abortControllerRef.current holds,   *)
(*                      0 for null; controller c is the one cycle c made   *)
(*   aborted            the aborted flag of each controller's signal       *)
(*   onMessageLog, onErrorLog   the calls made to the two observers        *)
(*   cycles             accepted submits so far                            *)
(*   poll               per cycle: the position of sendMessage /           *)
(*                      pollWorkflowMessages and the loop's locals         *)
(*   server             per cycle: the messages list the backend reported  *)
(*                      last                                               *)
(*   hist               per cycle: history variables used by the           *)
(*                      properties only                                    *)
(*   scenario           what the environment does in this behaviour:       *)
(*                      "poll": one cycle against a backend that reports   *)
(*                      any event list and answers every status request;   *)
(*                      "errors": one cycle against a backend that reports *)
(*                      at most one event and may fail any status request; *)
(*                      "cycles": up to MaxCycles cycles against a backend *)
(*                      that reports the same one event in every response, *)
(*                      answers every status request and is running        *)
(*                      exactly while its status is "running";             *)
(*                      "tools": one cycle against a backend that answers  *)
(*                      every status request and whose list grows by one   *)
(*                      event at a time, drawn from assistant, tool and    *)
(*                      other events with all kinds of content             *)
(***************************************************************************)
VARIABLES messages, isLoading, error, closureIsLoading, abortControllerRef,
          aborted, onMessageLog, onErrorLog, cycles, poll, server, hist,
          scenario,
          \* the page around the hook: the state of the error boundary, the
          \* repository statuses of the chat page, what the last
          \* updateRepositoryStatus call did and to which id (history), and the number of
          \* the loaded document (history: 0 is the first load)
          boundary, repositoryStatuses, lastUpdate, document

pageVars == <<boundary, repositoryStatuses, lastUpdate, document>>

chatVars == <<messages, isLoading, error, closureIsLoading, abortControllerRef,
              aborted, onMessageLog, onErrorLog, cycles, poll, server, hist,
              scenario>>

vars == <<messages, isLoading, error, closureIsLoading, abortControllerRef,
          aborted, onMessageLog, onErrorLog, cycles, poll, server, hist,
          scenario, pageVars>>

\* the time elapsed since lastUpdateTime is kept up to the first value that
\* passes the throttle test
ElapsedCap == updateThrottle + 1

\* user inputs of submit
UserTexts == {<<>>, <<" ">>, <<" ", "q">>}

\* the message field of a send response without workflow_id (empty when the
\* field is absent)
DirectMessages == {<<>>, <<"o", "k">>, <<" ", "o", "k", "\n">>}

\* the error messages of a failed send request
SendErrors == {HttpErrorMessage, NetworkErrorMessage}

\* events the backend may report in this model
Events ==
    { Ev("AIMessage", <<"a">>), Ev("AIMessage", <<" ">>), Ev("HumanMessage", <<"h">>) }

\* events the backend may report in the scenario "tools"
ToolEvents ==
    { Ev("AIMessage", <<"a">>), Ev("AIMessage", <<>>), Ev("AIMessage", JsonError),
      Ev("ToolMessage", <<>>), Ev("ToolMessage", JsonError),
      Ev("ToolMessage", JsonNotFound), Ev("ToolMessage", JsonErrorNotFound),
      Ev("ToolMessage", JsonEmptyErrorNotFound), Ev("ToolMessage", JsonOther),
      Ev("ToolMessage", NotJson), Ev("HumanMessage", <<"h">>) }

Statuses == {"running", "completed", "failed"}

IsPrefix(s, t) == Len(s) <= Len(t) /\ SubSeq(t, 1, Len(s)) = s

EventLists(n) == UNION { [1 .. k -> Events] : k \in 0 .. n }

\* the lists a response may report after `last`: the same list, an extension
\* of it, or a shorter prefix of it
NextLists(last) ==
    { SubSeq(last, 1, k) : k \in 0 .. Len(last) }
      \cup { last \o more : more \in EventLists(MaxEvents - Len(last)) }

\* the environment of the behaviour's scenario
CycleLimit == IF scenario = "cycles" THEN MaxCycles ELSE 1

ReportedLists(last) ==
    CASE scenario = "poll" -> NextLists(last)
      [] scenario = "errors" ->
           { l \in NextLists(last) :
               Len(l) <= 1 /\ \A i \in 1 .. Len(l) : l[i].type = "AIMessage" }
      [] scenario = "tools" ->
           {last} \cup { Append(last, e) : e \in IF Len(last) < MaxEvents
                                                 THEN ToolEvents ELSE {} }
      [] OTHER ->
           { l \in NextLists(last) :
               /\ IsPrefix(last, l)
               /\ Len(l) = 1
               /\ \A i \in 1 .. Len(l) : l[i] = Ev("AIMessage", <<"a">>) }

RequestsMayFail == scenario = "errors"

\* what the send request may answer: in "cycles" one message and one error
SendReplies == IF scenario = "cycles" THEN {<<"o", "k">>} ELSE DirectMessages
SendFailures == IF scenario = "cycles" THEN {HttpErrorMessage} ELSE SendErrors

\* with one cycle every state change is rendered before the caller acts
\* again; in "cycles" the caller may act on the sendMessage of an earlier
\* render
PromptRender == scenario /= "cycles"

Rerender == closureIsLoading' = IF PromptRender THEN isLoading' ELSE closureIsLoading

\* history: what the last settled status request was
ResponseClass(status, is_running) ==
    IF status \in {"completed", "failed"}
    THEN (IF is_running THEN "finishedButRunning" ELSE "finished")
    ELSE "unfinished"

ReportedStatus(status, is_running) ==
    scenario \in {"cycles", "tools"} => (is_running <=> status = "running")

UserId(c) == 2 * c - 1
AssistantId(c) == 2 * c

InitPoll ==
    [pc |-> "idle", messageId |-> 0, signal |-> 0, processedMessageCount |-> 0,
     accumulatedContent |-> <<>>, consecutiveErrors |-> 0,
     elapsed |-> ElapsedCap, delay |-> 0]

InitHist ==
    [endedBy |-> "none", folded |-> <<>>, lastResponse |-> "none", repeated |-> FALSE,
     grewOnly |-> TRUE, failStreak |-> 0, reply |-> <<>>,
     failures |-> 0, cancelled |-> FALSE, lostFlush |-> FALSE, hadList |-> FALSE]

\* history: no updateRepositoryStatus call was made yet
NoUpdate == [kind |-> "none", repoId |-> "none"]

\* the constructor of ErrorBoundary
InitBoundary == [hasError |-> FALSE, error |-> "undefined", errorInfo |-> "undefined"]

Init ==
    /\ messages = <<>>
    /\ isLoading = FALSE
    /\ error = <<>>
    /\ closureIsLoading = FALSE
    /\ abortControllerRef = 0
    /\ aborted = [c \in Cycles |-> FALSE]
    /\ onMessageLog = <<>>
    /\ onErrorLog = <<>>
    /\ cycles = 0
    /\ poll = [c \in Cycles |-> InitPoll]
    /\ server = [c \in Cycles |-> <<>>]
    /\ hist = [c \in Cycles |-> InitHist]
    /\ scenario \in {"poll", "errors", "cycles", "tools"}
    /\ boundary = InitBoundary
    /\ repositoryStatuses = <<>>
    /\ lastUpdate = NoUpdate
    /\ document = 0

InFlight(c) == poll[c].pc \in {"sending", "fetching", "waiting"}
Polling(c) == poll[c].pc \in {"fetching", "waiting"}

(***************************************************************************)
(* updateMessage: updates.content is a text or absent (<<>> or <<text>>),  *)
(* updates.streaming is "true", "false" or "undefined" (absent).           *)
(***************************************************************************)
Merge(msg, updates) ==
    [msg EXCEPT
       !.content = IF updates.content /= <<>> THEN updates.content[1] ELSE @,
       !.streaming = IF updates.streaming /= "undefined" THEN updates.streaming ELSE @]

\* variant: an update for a message that is not in the list adds it
updateMessageUpserting(prev, id, updates) ==
    IF \E i \in 1 .. Len(prev) : prev[i].id = id
    THEN [i \in 1 .. Len(prev) |->
            IF prev[i].id = id THEN Merge(prev[i], updates) ELSE prev[i]]
    ELSE Append(prev, Merge([id |-> id, role |-> "assistant", content |-> <<>>,
                             streaming |-> "true"], updates))

\* variant: the update is merged into every message
updateMessageOfAll(prev, id, updates) ==
    [i \in 1 .. Len(prev) |-> Merge(prev[i], updates)]

updateMessage(prev, id, updates) ==
    IF \E i \in 1 .. Len(prev) :
          /\ prev[i].id = id
          /\ updates.content = <<prev[i].content>>
          /\ updates.streaming = prev[i].streaming
    THEN prev
    ELSE [i \in 1 .. Len(prev) |->
            IF prev[i].id = id THEN Merge(prev[i], updates) ELSE prev[i]]

\* variant: a new submit closes the messages that are still streaming
addMessagesClosingEarlier(prev, c, content) ==
    [i \in 1 .. Len(prev) |->
        IF prev[i].streaming = "true" THEN [prev[i] EXCEPT !.streaming = "false"]
        ELSE prev[i]]
    \o << [id |-> UserId(c), role |-> "user", content |-> Trim(content),
           streaming |-> "undefined"],
          [id |-> AssistantId(c), role |-> "assistant", content |-> <<>>,
           streaming |-> "true"] >>

\* variant: the user message keeps the text as typed
addMessagesUntrimmed(prev, c, content) ==
    prev \o << [id |-> UserId(c), role |-> "user", content |-> content,
                streaming |-> "undefined"],
               [id |-> AssistantId(c), role |-> "assistant", content |-> <<>>,
                streaming |-> "true"] >>

HasMessage(msgs, id) == \E i \in 1 .. Len(msgs) : msgs[i].id = id
MessageOf(msgs, id) == msgs[CHOOSE i \in 1 .. Len(msgs) : msgs[i].id = id]

\* the two addMessage calls of sendMessage
addMessages(prev, c, content) ==
    prev \o << [id |-> UserId(c), role |-> "user", content |-> Trim(content),
                streaming |-> "undefined"],
               [id |-> AssistantId(c), role |-> "assistant", content |-> <<>>,
                streaming |-> "true"] >>

(***************************************************************************)
(* Decisions of the poll loop.                                             *)
(***************************************************************************)
\* variant: the exit test ignores is_running
IsTerminalByStatusAlone(status, is_running) ==
    status \in {"completed", "failed"}

\* variant: the exit test knows only the status "completed"
IsTerminalOnCompletedOnly(status, is_running) ==
    status = "completed" /\ is_running = FALSE

\* the loop's exit test on a successful response
IsTerminal(status, is_running) ==
    status \in {"completed", "failed"} /\ is_running = FALSE

\* variant: the cursor counts only the newly examined events
ProcessedCountOfNewOnly(processedMessageCount, dataMessages) ==
    Len(dataMessages) - processedMessageCount

\* variant: the cursor is never advanced
ProcessedCountNotAdvanced(processedMessageCount, dataMessages) == processedMessageCount

\* processedMessageCount = data.messages.length
NextProcessedCount(processedMessageCount, dataMessages) == Len(dataMessages)

\* variant: the non-terminal flush does not look at the accumulator
ShouldFlushWithoutContent(accumulatedContent, elapsed) ==
    elapsed > updateThrottle

\* the throttle test of the non-terminal flush
ShouldFlush(accumulatedContent, elapsed) ==
    Trim(accumulatedContent) /= <<>> /\ elapsed > updateThrottle

\* accumulatedContent.trim() || 'No response received'
FinalContent(accumulatedContent) ==
    IF Trim(accumulatedContent) /= <<>> THEN Trim(accumulatedContent)
    ELSE NoResponseReceived

\* variant: the fallback trims the message field
DirectContentTrimmed(message) ==
    IF Trim(message) /= <<>> THEN Trim(message) ELSE NoResponseReceived

\* initialData.message || 'No response received'
DirectContent(message) ==
    IF message /= <<>> THEN message ELSE NoResponseReceived

\* accumulatedContent.trim() || 'Error: Failed to poll ...'
ExhaustedContent(accumulatedContent) ==
    IF Trim(accumulatedContent) /= <<>> THEN Trim(accumulatedContent)
    ELSE PollFailedPlaceholder

\* variant: the cap test gives up one error early
TooManyErrorsOneEarly(consecutiveErrors) ==
    consecutiveErrors >= maxConsecutiveErrors - 1

\* the cap test of the catch block
TooManyErrors(consecutiveErrors) == consecutiveErrors >= maxConsecutiveErrors

\* the test at the top of each iteration
AbortObserved == abortControllerRef /= 0 /\ aborted[abortControllerRef]

\* the signal of a pending fetch has been aborted
SignalAborted(c) == poll[c].signal /= 0 /\ aborted[poll[c].signal]

Min(a, b) == IF a < b THEN a ELSE b

\* variant: abort() flips the aborted flag of the signal
AbortToggling(flags, controller) ==
    IF controller /= 0
    THEN [flags EXCEPT ![controller] = ~@]
    ELSE flags

\* if (abortControllerRef.current) abortControllerRef.current.abort():
\* the aborted flags afterwards
Abort(flags, controller) ==
    IF controller /= 0
    THEN [flags EXCEPT ![controller] = TRUE]
    ELSE flags

\* history: the events of newMessages (the examined tail of dataMessages)
\* that are folded, each with its index in dataMessages and its text
RECURSIVE FoldedEntries(_, _)
FoldedEntries(dataMessages, newMessages) ==
    IF newMessages = <<>> THEN <<>>
    ELSE (IF IsFolded(Head(newMessages))
          THEN << [index |-> Len(dataMessages) - Len(newMessages),
                   text |-> RenderContent(Head(newMessages))] >>
          ELSE <<>>)
         \o FoldedEntries(dataMessages, Tail(newMessages))

(***************************************************************************)
(* Shared pieces of the actions.                                           *)
(***************************************************************************)
\* variant: the finally block resets isLoading only after a terminal status
FinallyAfterTerminalOnly(c, p, h, endedBy) ==
    /\ isLoading' = IF endedBy = "terminal" THEN FALSE ELSE isLoading
    /\ abortControllerRef' = 0
    /\ poll' = [poll EXCEPT ![c] = [InitPoll EXCEPT !.pc = "done", !.messageId = p.messageId]]
    /\ server' = [server EXCEPT ![c] = <<>>]
    /\ hist' = [hist EXCEPT ![c] = [h EXCEPT !.endedBy = endedBy, !.cancelled = FALSE,
                                              !.lostFlush = FALSE, !.hadList = FALSE]]

\* the finally block of sendMessage, reached by cycle c with its locals p
\* and history h
Finally(c, p, h, endedBy) ==
    /\ isLoading' = FALSE
    /\ abortControllerRef' = 0
    /\ poll' = [poll EXCEPT ![c] = [InitPoll EXCEPT !.pc = "done", !.messageId = p.messageId]]
    /\ server' = [server EXCEPT ![c] = <<>>]
    /\ hist' = [hist EXCEPT ![c] = [h EXCEPT !.endedBy = endedBy, !.cancelled = FALSE,
                                              !.lostFlush = FALSE, !.hadList = FALSE]]

\* the top of a loop iteration: the abort test, then the status request
LoopTop(c, p, h) ==
    IF AbortObserved
    THEN Finally(c, p, h, "abort")
    ELSE /\ poll' = [poll EXCEPT ![c] = [p EXCEPT !.pc = "fetching", !.delay = 0,
                                            !.signal = abortControllerRef]]
         /\ hist' = [hist EXCEPT ![c] = [h EXCEPT
                        !.lastResponse = IF @ \in {"unfinished", "finishedButRunning"}
                                         THEN "ok" ELSE @,
                        !.repeated = FALSE,
                        !.lostFlush = FALSE, !.hadList = FALSE]]
         /\ UNCHANGED <<isLoading, abortControllerRef, server>>

(***************************************************************************)
(* sendMessage up to its first await.                                      *)
(***************************************************************************)
SubmitAccepted(content) == Trim(content) /= <<>> /\ ~closureIsLoading

Submit(content) ==
    /\ cycles < CycleLimit
    /\ SubmitAccepted(content)
    /\ LET c == cycles + 1 IN
       /\ cycles' = c
       /\ messages' = addMessages(messages, c, content)
       /\ onMessageLog' = onMessageLog \o <<UserId(c), AssistantId(c)>>
       /\ isLoading' = TRUE
       /\ error' = <<>>
       /\ aborted' = Abort(aborted, abortControllerRef)
       /\ abortControllerRef' = c
       /\ poll' = [poll EXCEPT ![c] = [InitPoll EXCEPT !.pc = "sending",
                                         !.messageId = AssistantId(c), !.signal = c]]
    /\ Rerender
    /\ UNCHANGED <<onErrorLog, server, hist, scenario, pageVars>>

\* the early return of sendMessage
SubmitIgnored(content) ==
    /\ ~SubmitAccepted(content)
    /\ UNCHANGED vars

(***************************************************************************)
(* The send request settles.                                               *)
(***************************************************************************)
\* variant: the catch block does not call onError
SendFailedUnreported(c, errorMessage) ==
    /\ poll[c].pc = "sending"
    /\ ~SignalAborted(c)
    /\ error' = <<errorMessage>>
    /\ messages' = updateMessage(messages, poll[c].messageId,
                      [content |-> <<ErrorPrefix \o errorMessage>>, streaming |-> "false"])
    /\ Finally(c, poll[c], hist[c], "sendError")
    /\ UNCHANGED <<aborted, onMessageLog, onErrorLog, cycles, scenario, pageVars>>
    /\ Rerender

\* fetch rejects (network) or the response is not ok: the catch block
SendFailed(c, errorMessage) ==
    /\ poll[c].pc = "sending"
    /\ ~SignalAborted(c)
    /\ error' = <<errorMessage>>
    /\ onErrorLog' = Append(onErrorLog, errorMessage)
    /\ messages' = updateMessage(messages, poll[c].messageId,
                      [content |-> <<ErrorPrefix \o errorMessage>>, streaming |-> "false"])
    /\ Finally(c, poll[c], hist[c], "sendError")
    /\ UNCHANGED <<aborted, onMessageLog, cycles, scenario, pageVars>>
    /\ Rerender

\* the response carries no workflow_id: initialData.message is the content
SendNoWorkflow(c, message) ==
    /\ poll[c].pc = "sending"
    /\ ~SignalAborted(c)
    /\ messages' = updateMessage(messages, poll[c].messageId,
                      [content |-> <<DirectContent(message)>>, streaming |-> "false"])
    /\ Finally(c, poll[c], [hist[c] EXCEPT !.reply = <<message>>], "noWorkflow")
    /\ UNCHANGED <<error, aborted, onMessageLog, onErrorLog, cycles, scenario, pageVars>>
    /\ Rerender

\* the response carries a workflow_id: pollWorkflowMessages starts
SendWorkflow(c) ==
    /\ poll[c].pc = "sending"
    /\ ~SignalAborted(c)
    /\ LoopTop(c, poll[c], hist[c])
    /\ UNCHANGED <<messages, error, aborted, onMessageLog,
                   onErrorLog, cycles, scenario, pageVars>>
    /\ Rerender

\* the send request was aborted: AbortError, the catch block returns
SendAborted(c) ==
    /\ poll[c].pc = "sending"
    /\ SignalAborted(c)
    /\ Finally(c, poll[c], hist[c], "sendAbort")
    /\ UNCHANGED <<messages, error, aborted, onMessageLog,
                   onErrorLog, cycles, scenario, pageVars>>
    /\ Rerender

(***************************************************************************)
(* A status request settles.                                               *)
(***************************************************************************)
\* a successful response: data = [messages (when hasMessages), status, is_running]
StatusOk(c, dataMessages, hasMessages, status, is_running) ==
    /\ poll[c].pc = "fetching"
    /\ ~SignalAborted(c)
    /\ ~hasMessages => dataMessages = server[c]
    /\ ReportedStatus(status, is_running)
    /\ LET p == poll[c]
           h == hist[c]
           newMessages == SliceFrom(dataMessages, p.processedMessageCount)
           acc == IF hasMessages
                  THEN FoldMessages(p.accumulatedContent, newMessages)
                  ELSE p.accumulatedContent
           count == IF hasMessages
                    THEN NextProcessedCount(p.processedMessageCount, dataMessages)
                    ELSE p.processedMessageCount
           flush == hasMessages /\ ShouldFlush(acc, p.elapsed)
           flushed == IF flush
                      THEN updateMessage(messages, p.messageId,
                              [content |-> <<Trim(acc)>>, streaming |-> "undefined"])
                      ELSE messages
           p1 == [p EXCEPT !.consecutiveErrors = 0,
                           !.accumulatedContent = acc,
                           !.processedMessageCount = count,
                           !.elapsed = IF flush THEN 0 ELSE @]
           h1 == [h EXCEPT
                    !.folded = IF hasMessages
                               THEN @ \o FoldedEntries(dataMessages, newMessages)
                               ELSE @,
                    !.repeated = /\ h.lastResponse = "ok"
                                 /\ hasMessages
                                 /\ dataMessages = server[c]
                                 /\ ~IsTerminal(status, is_running),
                    !.grewOnly = @ /\ (hasMessages => Len(dataMessages) >= p.processedMessageCount),
                    !.lastResponse = ResponseClass(status, is_running),
                    !.failStreak = 0,
                    !.lostFlush = flush /\ ~HasMessage(messages, p.messageId),
                    !.hadList = hasMessages]
       IN /\ Len(h1.folded) <= MaxFolds
          /\ IF IsTerminal(status, is_running)
             THEN /\ messages' = updateMessage(flushed, p.messageId,
                                    [content |-> <<FinalContent(acc)>>, streaming |-> "false"])
                  /\ Finally(c, p1, h1, "terminal")
             ELSE /\ messages' = flushed
                  /\ poll' = [poll EXCEPT ![c] = [p1 EXCEPT !.pc = "waiting", !.delay = PollDelay]]
                  /\ hist' = [hist EXCEPT ![c] = h1]
                  /\ server' = [server EXCEPT ![c] = dataMessages]
                  /\ UNCHANGED <<isLoading, abortControllerRef>>
    /\ UNCHANGED <<error, aborted, onMessageLog, onErrorLog, cycles, scenario, pageVars>>
    /\ Rerender

\* the catch block of the loop, entered with the thrown error being an
\* AbortError or not
CatchBlock(c, isAbortError) ==
    LET p == [poll[c] EXCEPT !.consecutiveErrors = @ + 1]
        h == [hist[c] EXCEPT !.lastResponse = IF isAbortError THEN "abort" ELSE "error",
                             !.repeated = FALSE,
                             !.failStreak = IF isAbortError THEN @ ELSE @ + 1,
                             !.failures = IF isAbortError THEN @
                                          ELSE Min(maxConsecutiveErrors, @ + 1)]
    IN IF TooManyErrors(p.consecutiveErrors)
       THEN /\ messages' = updateMessage(messages, p.messageId,
                              [content |-> <<ExhaustedContent(p.accumulatedContent)>>,
                               streaming |-> "false"])
            /\ Finally(c, p, h, "errors")
       ELSE IF isAbortError
       THEN /\ messages' = messages
            /\ Finally(c, p, h, "abort")
       ELSE /\ messages' = messages
            /\ poll' = [poll EXCEPT ![c] = [p EXCEPT !.pc = "waiting", !.delay = RetryDelay]]
            /\ hist' = [hist EXCEPT ![c] = h]
            /\ UNCHANGED <<isLoading, abortControllerRef, server>>

\* the request fails: network error, non-ok status or unreadable body
StatusFailed(c) ==
    /\ RequestsMayFail
    /\ poll[c].pc = "fetching"
    /\ ~SignalAborted(c)
    /\ CatchBlock(c, FALSE)
    /\ UNCHANGED <<error, aborted, onMessageLog, onErrorLog, cycles, scenario, pageVars>>
    /\ Rerender

\* the pending request was aborted: fetch rejects with an AbortError
StatusAborted(c) ==
    /\ poll[c].pc = "fetching"
    /\ SignalAborted(c)
    /\ CatchBlock(c, TRUE)
    /\ UNCHANGED <<error, aborted, onMessageLog, onErrorLog, cycles, scenario, pageVars>>
    /\ Rerender

\* the inter-poll delay ends: the next iteration starts
Wake(c) ==
    /\ poll[c].pc = "waiting"
    /\ LoopTop(c, [poll[c] EXCEPT !.elapsed = Min(ElapsedCap, @ + poll[c].delay)], hist[c])
    /\ UNCHANGED <<messages, error, aborted, onMessageLog,
                   onErrorLog, cycles, scenario, pageVars>>
    /\ Rerender

(***************************************************************************)
(* The other operations of the hook.                                       *)
(***************************************************************************)
\* stopOperation
Cancel ==
    /\ aborted' = Abort(aborted, abortControllerRef)
    /\ hist' = [c \in Cycles |->
                  IF Polling(c) THEN [hist[c] EXCEPT !.cancelled = TRUE] ELSE hist[c]]
    /\ UNCHANGED <<messages, isLoading, error, closureIsLoading, abortControllerRef,
                   onMessageLog, onErrorLog, cycles, poll, server, scenario, pageVars>>

\* variant: clear also aborts the controller in abortControllerRef
ClearAborting ==
    /\ messages' = <<>>
    /\ aborted' = Abort(aborted, abortControllerRef)
    /\ UNCHANGED <<isLoading, error, closureIsLoading, abortControllerRef,
                   onMessageLog, onErrorLog, cycles, poll, server, hist, scenario, pageVars>>

\* clearMessages
Clear ==
    /\ messages' = <<>>
    /\ UNCHANGED <<isLoading, error, closureIsLoading, abortControllerRef, aborted,
                   onMessageLog, onErrorLog, cycles, poll, server, hist, scenario, pageVars>>

\* a render: the caller now holds a sendMessage that closes over the
\* current state
Render ==
    /\ ~PromptRender
    /\ closureIsLoading /= isLoading
    /\ closureIsLoading' = isLoading
    /\ UNCHANGED <<messages, isLoading, error, abortControllerRef, aborted,
                   onMessageLog, onErrorLog, cycles, poll, server, hist, scenario, pageVars>>

Next ==
    \/ \E content \in UserTexts : Submit(content)
    \/ \E content \in UserTexts : SubmitIgnored(content)
    \/ \E c \in Cycles, m \in SendFailures : SendFailed(c, m)
    \/ \E c \in Cycles, m \in SendReplies : SendNoWorkflow(c, m)
    \/ \E c \in Cycles : SendWorkflow(c)
    \/ \E c \in Cycles : SendAborted(c)
    \/ \E c \in Cycles :
          /\ poll[c].pc = "fetching"
          /\ \E l \in ReportedLists(server[c]), has \in BOOLEAN,
                st \in Statuses, r \in BOOLEAN :
                StatusOk(c, l, has, st, r)
    \/ \E c \in Cycles : StatusFailed(c)
    \/ \E c \in Cycles : StatusAborted(c)
    \/ \E c \in Cycles : Wake(c)
    \/ Cancel
    \/ Clear
    \/ Render

Spec == Init /\ [][Next]_vars

(***************************************************************************)
(* The page around the hook: the repository status tracker of the chat     *)
(* page and the error boundary.                                            *)
(***************************************************************************)
\* the repositories of the context, id -> name
RepositoryNames == [r1 |-> "frontend", r2 |-> "backend"]
KnownIds == DOMAIN RepositoryNames
\* the ids an update may name: the known ones and one the context lacks
RepoIds == KnownIds \cup {"r9"}
TrackerStatuses == {"pending", "in_progress", "completed", "error"}
Steps == {"branch", "tag"}
\* the optional step argument: absent or one step
StepArgs == {<<>>} \cup {<<s>> : s \in Steps}

\* `step && ...`: the argument is given and is not the empty string
Truthy(step) == step /= <<>> /\ step[1] /= ""

\* prev.find(s => s.id === repoId) finds an entry
Tracked(prev, repoId) == \E i \in 1 .. Len(prev) : prev[i].id = repoId
EntryOf(prev, repoId) == prev[CHOOSE i \in 1 .. Len(prev) : prev[i].id = repoId]

\* completedSteps.filter(cs => cs !== step)
FilterOut(completedSteps, step) == SelectSeq(completedSteps, LAMBDA cs : cs /= step)

\* variant: the step is appended without being filtered out first
CompletedStepsUnfiltered(completedSteps, status, step) ==
    IF Truthy(step) /\ status = "completed"
    THEN Append(completedSteps, step[1])
    ELSE completedSteps

\* the completedSteps of an entry after an update; for a new entry the
\* list before is empty
CompletedSteps(completedSteps, status, step) ==
    IF Truthy(step) /\ status = "completed"
    THEN Append(FilterOut(completedSteps, step[1]), step[1])
    ELSE completedSteps

\* the state updater passed to setRepositoryStatuses
UpdatedStatuses(prev, repoId, status, step) ==
    IF ~Tracked(prev, repoId) /\ repoId \in KnownIds
    THEN Append(prev, [id |-> repoId,
                       name |-> RepositoryNames[repoId],
                       status |-> status,
                       currentStep |-> step,
                       completedSteps |-> CompletedSteps(<<>>, status, step)])
    ELSE [i \in 1 .. Len(prev) |->
            IF prev[i].id = repoId
            THEN [prev[i] EXCEPT !.status = status,
                                 !.currentStep = step,
                                 !.completedSteps = CompletedSteps(@, status, step)]
            ELSE prev[i]]

\* history: what a call does to the tracker
UpdateKind(prev, repoId, status, step) ==
    IF ~Tracked(prev, repoId) /\ repoId \notin KnownIds THEN "ignored"
    ELSE IF ~(Truthy(step) /\ status = "completed") THEN "noStep"
    ELSE IF Tracked(prev, repoId)
            /\ \E k \in 1 .. Len(EntryOf(prev, repoId).completedSteps) :
                  EntryOf(prev, repoId).completedSteps[k] = step[1]
    THEN "moved"
    ELSE "added"

updateRepositoryStatus(repoId, status, step) ==
    /\ repositoryStatuses' = UpdatedStatuses(repositoryStatuses, repoId, status, step)
    /\ lastUpdate' = [kind |-> UpdateKind(repositoryStatuses, repoId, status, step),
                       repoId |-> repoId]
    /\ UNCHANGED <<boundary, document, chatVars>>

\* a child throws while rendering: getDerivedStateFromError gives the state
\* of the next render, the fallback
getDerivedStateFromError ==
    /\ ~boundary.hasError
    /\ boundary' = [hasError |-> TRUE, error |-> "Error", errorInfo |-> "undefined"]
    /\ UNCHANGED <<repositoryStatuses, lastUpdate, document, chatVars>>

\* componentDidCatch, called once for the caught error
componentDidCatch ==
    /\ boundary.hasError
    /\ boundary.errorInfo = "undefined"
    /\ boundary' = [boundary EXCEPT !.error = "Error", !.errorInfo = "componentStack"]
    /\ UNCHANGED <<repositoryStatuses, lastUpdate, document, chatVars>>

\* the button of the fallback: window.location.reload() unloads the document
\* and loads the page anew, every component being constructed again
ReloadPage ==
    /\ boundary.hasError
    /\ document < MaxReloads
    /\ document' = document + 1
    /\ boundary' = InitBoundary
    /\ repositoryStatuses' = <<>>
    /\ lastUpdate' = NoUpdate
    /\ UNCHANGED chatVars

PageInit == Init /\ scenario = "poll"

PageNext ==
    \/ \E repoId \in RepoIds, status \in TrackerStatuses, step \in StepArgs :
          updateRepositoryStatus(repoId, status, step)
    \/ getDerivedStateFromError
    \/ componentDidCatch
    \/ ReloadPage

PageSpec == PageInit /\ [][PageNext]_vars

\* the status tracker alone: the page renders, only status updates arrive
TrackerNext ==
    \E repoId \in RepoIds, status \in TrackerStatuses, step \in StepArgs :
       updateRepositoryStatus(repoId, status, step)

TrackerSpec == PageInit /\ [][TrackerNext]_vars

(***************************************************************************)
(* Properties.                                                             *)
(***************************************************************************)

\* the concatenation of the folded texts, each followed by a blank line
RECURSIVE ConcatFolded(_)
ConcatFolded(folded) ==
    IF folded = <<>> THEN <<>>
    ELSE Head(folded).text \o BlankLine \o ConcatFolded(Tail(folded))

\* a status request of cycle c settles in this step with a successful
\* response of the given class
Answered(c, class) ==
    poll[c].pc = "fetching" /\ hist'[c].lastResponse = class

\* C1: a successful status response whose status is completed or failed but
\* whose is_running is true does not end the loop: the cycle goes on to the
\* 2-second inter-poll delay with its assistant message still streaming, and
\* when that delay ends the next status request is issued unless the abort
\* test at the top of the iteration sees a cancellation.
C1_FinishedButRunningContinues ==
    [][\A c \in Cycles :
         /\ Answered(c, "finishedButRunning") =>
              /\ poll'[c].pc = "waiting"
              /\ poll'[c].delay = PollDelay
              /\ HasMessage(messages, poll[c].messageId) =>
                   /\ HasMessage(messages', poll[c].messageId)
                   /\ MessageOf(messages', poll[c].messageId).streaming = "true"
         /\ (poll[c].pc = "waiting" /\ poll'[c].pc /= "waiting") =>
              IF AbortObserved THEN poll'[c].pc = "done" ELSE poll'[c].pc = "fetching"
      ]_vars

C1_Witness ==
    \E c \in Cycles :
       /\ poll[c].pc = "waiting"
       /\ hist[c].lastResponse = "finishedButRunning"
       /\ HasMessage(messages, poll[c].messageId)
       /\ MessageOf(messages, poll[c].messageId).streaming = "true"

\* C2: a successful status response with status completed or failed and
\* is_running false ends the loop in the same step: the cycle is done, its
\* assistant message has streaming false, and a cycle that is done stays
\* done, so it issues no further status request.
C2_TerminalResponseEndsLoop ==
    [][\A c \in Cycles :
         /\ Answered(c, "finished") =>
              /\ poll'[c].pc = "done"
              /\ hist'[c].endedBy = "terminal"
              /\ HasMessage(messages, poll[c].messageId) =>
                   /\ HasMessage(messages', poll[c].messageId)
                   /\ MessageOf(messages', poll[c].messageId).streaming = "false"
         /\ poll[c].pc = "done" => poll'[c].pc = "done"
      ]_vars

C2_Witness ==
    \E c \in Cycles :
       /\ poll[c].pc = "done"
       /\ hist[c].endedBy = "terminal"
       /\ hist[c].lastResponse = "finished"
       /\ HasMessage(messages, poll[c].messageId)
       /\ MessageOf(messages, poll[c].messageId).streaming = "false"

\* the final content the claim C3 states: the trimmed concatenation of the
\* folded events, the placeholder when `empty` holds
FinalContentClaimed(folded, empty) ==
    IF empty THEN NoResponseReceived ELSE Trim(ConcatFolded(folded))

\* C3 (as stated): after the loop ended on a terminal status the assistant
\* message has streaming false and its content is the trimmed concatenation
\* of every folded event, or 'No response received' when the accumulator is
\* empty.
C3_FinalContentAsStated ==
    \A c \in Cycles :
       (hist[c].endedBy = "terminal" /\ HasMessage(messages, poll[c].messageId)) =>
          /\ MessageOf(messages, poll[c].messageId).streaming = "false"
          /\ MessageOf(messages, poll[c].messageId).content =
                FinalContentClaimed(hist[c].folded, ConcatFolded(hist[c].folded) = <<>>)

\* C3 (amended): after the loop ended on a terminal status the assistant
\* message has streaming false and its content is the trimmed concatenation
\* of every folded event in order, each followed by a blank line, or
\* 'No response received' when that trimmed text is empty.
C3_FinalContent ==
    \A c \in Cycles :
       (hist[c].endedBy = "terminal" /\ HasMessage(messages, poll[c].messageId)) =>
          /\ MessageOf(messages, poll[c].messageId).streaming = "false"
          /\ MessageOf(messages, poll[c].messageId).content =
                FinalContentClaimed(hist[c].folded,
                                    Trim(ConcatFolded(hist[c].folded)) = <<>>)

C3_Witness ==
    \E c \in Cycles :
       /\ hist[c].endedBy = "terminal"
       /\ Len(hist[c].folded) >= 2
       /\ HasMessage(messages, poll[c].messageId)
       /\ MessageOf(messages, poll[c].messageId).content = Trim(ConcatFolded(hist[c].folded))

\* C4: while every response of a cycle reported at least as many messages as
\* had been processed before it, no event index was folded twice.
C4_NoEventFoldedTwice ==
    \A c \in Cycles :
       hist[c].grewOnly =>
          \A i, j \in 1 .. Len(hist[c].folded) :
             i /= j => hist[c].folded[i].index /= hist[c].folded[j].index

C4_Witness ==
    \E c \in Cycles :
       /\ hist[c].grewOnly
       /\ Len(hist[c].folded) >= 2
       /\ hist[c].repeated

\* C5: a non-terminal response that reports the messages array processed
\* last leaves the accumulator and the conversation's messages unchanged.
C5_RedeliveryChangesNothing ==
    [][\A c \in Cycles :
         (poll[c].pc = "fetching" /\ hist'[c].repeated) =>
            /\ poll'[c].accumulatedContent = poll[c].accumulatedContent
            /\ messages' = messages
      ]_vars

C5_Witness ==
    \E c \in Cycles :
       /\ hist[c].repeated
       /\ poll[c].pc = "waiting"
       /\ poll[c].accumulatedContent /= <<>>
       /\ HasMessage(messages, poll[c].messageId)
       /\ MessageOf(messages, poll[c].messageId).content = Trim(poll[c].accumulatedContent)

\* the cursor of a polling cycle never exceeds the length of the list reported
\* last, which is at most the number of messages seen so far
CursorWithinReported ==
    \A c \in Cycles : poll[c].processedMessageCount <= Len(server[c])

\* C6 (as stated): whatever the responses report, also fewer messages than
\* before, processedCount never decreases during a poll cycle and never
\* exceeds the number of messages seen so far.
C6_ProcessedCountAsStated ==
    /\ [][\A c \in Cycles :
            (Polling(c) /\ poll'[c].pc /= "done") =>
               poll'[c].processedMessageCount >= poll[c].processedMessageCount
         ]_vars
    /\ []CursorWithinReported

\* C6 (amended): processedCount never exceeds the number of messages seen so
\* far, and it does not decrease in a step in which the reported list does not
\* get shorter; a response that reports fewer messages sets it back to that
\* smaller number.
C6_ProcessedCount ==
    /\ [][\A c \in Cycles :
            (Polling(c) /\ poll'[c].pc /= "done") =>
               IF Len(server'[c]) >= Len(server[c])
               THEN poll'[c].processedMessageCount >= poll[c].processedMessageCount
               ELSE poll'[c].processedMessageCount = Len(server'[c])
         ]_vars
    /\ []CursorWithinReported

C6_Witness ==
    \E c \in Cycles :
       /\ poll[c].pc = "waiting"
       /\ ~hist[c].grewOnly
       /\ poll[c].processedMessageCount = 0
       /\ hist[c].folded /= <<>>

\* C7 (as stated): the loop is force-terminated by failures only when 5
\* status requests in a row have failed (network error, non-ok status or
\* unreadable body).
C7_ErrorCapAsStated ==
    \A c \in Cycles :
       hist[c].endedBy = "errors" => hist[c].failStreak = maxConsecutiveErrors

\* C8 (as stated): when the loop stopped after 5 consecutive errors the
\* failure has been reported to the error observer onError.
C8_ExhaustionReportedAsStated ==
    \A c \in Cycles :
       hist[c].endedBy = "errors" => onErrorLog /= <<>>

\* C9 (as stated): a polling cycle that exits because of a cancellation (its
\* pending status request was aborted, or the abort test at the top of an
\* iteration sees the cancellation) exits without writing to any message.
C9_CancelWritesNothingAsStated ==
    [][\A c \in Cycles :
         ( /\ \/ (poll[c].pc = "fetching" /\ SignalAborted(c))
              \/ (poll[c].pc = "waiting" /\ AbortObserved)
           /\ poll'[c].pc = "done" )
         => messages' = messages
      ]_vars

\* a later submit was accepted while cycle c was in flight
Superseded(c) == InFlight(c) /\ c < cycles

\* C10 (as stated): a cycle that a later accepted submit found in flight
\* issues no further status request and updates no message, and the newest
\* cycle, while in flight, has its own controller in abortControllerRef.
C10_OneActiveCycleAsStated ==
    /\ [][\A c \in Cycles :
            Superseded(c) =>
               /\ poll'[c].pc = "fetching" => poll[c].pc = "fetching"
               /\ (HasMessage(messages, AssistantId(c)) /\ HasMessage(messages', AssistantId(c)))
                    => MessageOf(messages', AssistantId(c)) = MessageOf(messages, AssistantId(c))
         ]_vars
    /\ [](cycles >= 1 /\ InFlight(cycles) => abortControllerRef = cycles)

\* C11 (as stated): submit is a no-op while a send is in progress: in a state
\* with isLoading true no step appends a message, starts a cycle, or replaces
\* the controller in abortControllerRef.
C11_SubmitIgnoredAsStated ==
    [][isLoading =>
         /\ Len(messages') <= Len(messages)
         /\ cycles' = cycles
         /\ abortControllerRef' \in {abortControllerRef, 0}
      ]_vars

\* C12: a step that accepts a submit appends exactly two messages to the end
\* of the conversation, first a user message whose content is the trimmed
\* text, then an assistant message with empty content and streaming true, and
\* calls onMessage once for each, in that order; no other step calls
\* onMessage.
C12_AcceptedSubmitAppendsTwo ==
    [][IF cycles' /= cycles
       THEN \E content \in UserTexts :
              /\ Trim(content) /= <<>>
              /\ messages' = messages \o
                   << [id |-> UserId(cycles'), role |-> "user",
                       content |-> Trim(content), streaming |-> "undefined"],
                      [id |-> AssistantId(cycles'), role |-> "assistant",
                       content |-> <<>>, streaming |-> "true"] >>
              /\ onMessageLog' = onMessageLog \o <<UserId(cycles'), AssistantId(cycles')>>
       ELSE /\ onMessageLog' = onMessageLog
            /\ Len(messages') <= Len(messages)
      ]_vars

C12_Witness ==
    /\ cycles >= 1
    /\ Len(messages) = 2
    /\ messages[1].role = "user" /\ messages[1].content = <<"q">>
    /\ messages[2].role = "assistant" /\ messages[2].streaming = "false"
    /\ messages[2].content /= <<>>
    /\ onMessageLog = <<UserId(1), AssistantId(1)>>

\* a cycle that ended on a send response without workflow_id, with its
\* assistant message still in the conversation
EndedWithoutWorkflow(c) ==
    hist[c].endedBy = "noWorkflow" /\ HasMessage(messages, poll[c].messageId)

\* C13 (as stated): when the send response carries no workflow_id, the
\* assistant message has the response's message field, verbatim, as its
\* content and streaming false, and no status request was issued.
C13_DirectMessageAsStated ==
    \A c \in Cycles :
       EndedWithoutWorkflow(c) =>
          /\ MessageOf(messages, poll[c].messageId).content = hist[c].reply[1]
          /\ MessageOf(messages, poll[c].messageId).streaming = "false"
          /\ poll[c].pc = "done" /\ hist[c].lastResponse = "none"

\* C13 (amended): when the send response carries no workflow_id, the
\* assistant message has streaming false and its content is the response's
\* message field verbatim (untrimmed), or 'No response received' when that
\* field is empty or absent; the cycle is over and no status request was
\* issued for it.
C13_DirectMessage ==
    \A c \in Cycles :
       EndedWithoutWorkflow(c) =>
          /\ MessageOf(messages, poll[c].messageId).content =
                IF hist[c].reply[1] = <<>> THEN NoResponseReceived ELSE hist[c].reply[1]
          /\ MessageOf(messages, poll[c].messageId).streaming = "false"
          /\ poll[c].pc = "done" /\ hist[c].lastResponse = "none"

C13_Witness ==
    \E c \in Cycles :
       /\ EndedWithoutWorkflow(c)
       /\ hist[c].reply = << <<" ", "o", "k", "\n">> >>
       /\ MessageOf(messages, poll[c].messageId).content = <<" ", "o", "k", "\n">>

\* cycle c makes a non-terminal flush in this step: lastUpdateTime is set to
\* the current time and the loop goes on
FlushesNow(c) ==
    poll[c].pc = "fetching" /\ poll'[c].pc = "waiting" /\ poll'[c].elapsed = 0

\* C14: a non-terminal flush happens only when more than updateThrottle (500)
\* ms have passed since the previous one and the trimmed accumulator is not
\* empty, and it writes the trimmed accumulator, leaving streaming as it is;
\* the write of a terminal response is made whatever the time since the last
\* flush.
C14_ThrottledFlush ==
    [][\A c \in Cycles :
         /\ FlushesNow(c) =>
              /\ poll[c].elapsed > updateThrottle
              /\ Trim(poll'[c].accumulatedContent) /= <<>>
              /\ HasMessage(messages, poll[c].messageId) =>
                   /\ MessageOf(messages', poll[c].messageId).content =
                         Trim(poll'[c].accumulatedContent)
                   /\ MessageOf(messages', poll[c].messageId).streaming =
                         MessageOf(messages, poll[c].messageId).streaming
         /\ (poll[c].pc = "fetching" /\ poll'[c].pc = "waiting" /\ ~FlushesNow(c)) =>
              messages' = messages
         /\ (Answered(c, "finished") /\ HasMessage(messages, poll[c].messageId)) =>
              MessageOf(messages', poll[c].messageId).content =
                 FinalContentClaimed(hist'[c].folded,
                                     Trim(ConcatFolded(hist'[c].folded)) = <<>>)
      ]_vars

\* a second flush: the response just handled repeated the list of the one
\* before it, whose non-empty trimmed accumulator had been flushed, and was
\* flushed too, the inter-poll delay having passed in between
C14_Witness ==
    \E c \in Cycles :
       /\ poll[c].pc = "waiting"
       /\ hist[c].repeated
       /\ poll[c].elapsed = 0
       /\ Trim(poll[c].accumulatedContent) /= <<>>
       /\ HasMessage(messages, poll[c].messageId)
       /\ MessageOf(messages, poll[c].messageId).content = Trim(poll[c].accumulatedContent)

\* no send/poll cycle is in flight
Idle == \A c \in Cycles : ~InFlight(c)

\* a step of cancel() that has an effect: only an aborted flag changes
Cancels == aborted' /= aborted /\ cycles' = cycles

\* C15: cancel() changes nothing but the aborted flag of the controller in
\* abortControllerRef; when no cycle is in flight there is no such controller
\* and cancel() changes nothing at all; and a second cancel() changes nothing:
\* the flags after two calls are the flags after one.
C15_CancelIdempotent ==
    /\ [][Cancels =>
            /\ ~Idle
            /\ abortControllerRef /= 0
            /\ aborted' = [aborted EXCEPT ![abortControllerRef] = TRUE]
            /\ Abort(aborted', abortControllerRef') = aborted'
            /\ UNCHANGED <<messages, isLoading, error, abortControllerRef, poll,
                           onMessageLog, onErrorLog>>
         ]_vars
    /\ [](Idle => Abort(aborted, abortControllerRef) = aborted)
    /\ [](Abort(Abort(aborted, abortControllerRef), abortControllerRef)
             = Abort(aborted, abortControllerRef))

\* cancelled during a cycle (a second cancel() finds the flag set), and later
\* idle with the cancelled cycle over
C15_Witness ==
    /\ Idle
    /\ cycles >= 1
    /\ abortControllerRef = 0
    /\ \E c \in Cycles : aborted[c] /\ hist[c].endedBy \in {"abort", "sendAbort"}

\* C16: the only step that shortens the conversation is clear(): it leaves
\* the conversation empty and changes nothing else (no controller is aborted,
\* isLoading, error and every cycle's position and locals are kept); a cycle
\* whose assistant message was cleared goes on polling: when its delay ends
\* it issues the next status request unless the abort test sees a
\* cancellation, and its updates do not bring the message back.
C16_ClearOnlyEmptiesMessages ==
    [][/\ Len(messages') < Len(messages) =>
            /\ messages' = <<>>
            /\ UNCHANGED <<isLoading, error, abortControllerRef, aborted, poll,
                           onMessageLog, onErrorLog, cycles>>
       /\ \A c \in Cycles :
            (InFlight(c) /\ ~HasMessage(messages, poll[c].messageId)) =>
               /\ (poll[c].pc = "waiting" /\ poll'[c].pc /= "waiting") =>
                     IF AbortObserved THEN poll'[c].pc = "done"
                     ELSE poll'[c].pc = "fetching"
               /\ cycles' = cycles => ~HasMessage(messages', poll[c].messageId)
      ]_vars

\* cleared during a cycle that keeps polling: the conversation is empty, the
\* cycle has folded content and a status request of it is pending
C16_Witness ==
    \E c \in Cycles :
       /\ messages = <<>>
       /\ isLoading
       /\ ~aborted[c]
       /\ poll[c].pc = "fetching"
       /\ poll[c].accumulatedContent /= <<>>

\* the ways a cycle ends
Endings == {"terminal", "errors", "abort", "sendAbort", "sendError", "noWorkflow"}

\* C17: the step in which a cycle ends, by whichever path, leaves isLoading
\* false and abortControllerRef null; and whenever no cycle is in flight,
\* isLoading is false and the ref is null, so that the sendMessage of the
\* current render accepts every submit whose text is not blank.
C17_CycleEndLeavesUsable ==
    /\ [][\A c \in Cycles :
            (InFlight(c) /\ poll'[c].pc = "done") =>
               /\ hist'[c].endedBy \in Endings
               /\ isLoading' = FALSE
               /\ abortControllerRef' = 0
         ]_vars
    /\ [](Idle =>
            /\ isLoading = FALSE
            /\ abortControllerRef = 0
            /\ closureIsLoading = isLoading =>
                 \A content \in UserTexts :
                    Trim(content) /= <<>> => SubmitAccepted(content))

\* a second cycle was started after the first one had ended
C17_Witness ==
    /\ cycles = 2
    /\ hist[1].endedBy \in Endings
    /\ poll[1].pc = "done"
    /\ ~aborted[1]
    /\ InFlight(2)
    /\ abortControllerRef = 2

\* C18: a step that does not shorten the conversation (any step but clear())
\* keeps every existing message at its position with its id and role, and the
\* only messages whose content or streaming flag it changes are assistant
\* messages, namely the one of the cycle that takes the step; a step that
\* shortens the conversation empties it.
C18_MessagesKept ==
    [][IF Len(messages') < Len(messages)
       THEN messages' = <<>>
       ELSE \A i \in 1 .. Len(messages) :
              /\ messages'[i].id = messages[i].id
              /\ messages'[i].role = messages[i].role
              /\ messages'[i] /= messages[i] =>
                   /\ messages[i].role = "assistant"
                   /\ \E c \in Cycles :
                        /\ InFlight(c) /\ poll'[c] /= poll[c]
                        /\ messages[i].id = poll[c].messageId
      ]_vars

\* two cycles' messages in the conversation, the assistant message of the
\* second one updated and the first cycle's messages as they were
C18_Witness ==
    /\ Len(messages) = 4
    /\ messages[1].role = "user" /\ messages[1].content = <<"q">>
    /\ messages[2].id = AssistantId(1) /\ messages[2].streaming = "false"
    /\ messages[3].role = "user" /\ messages[3].content = <<"q">>
    /\ messages[4].id = AssistantId(2) /\ messages[4].streaming = "false"
    /\ messages[4].content /= messages[2].content

\* the fold condition as the claim C19 words it, and with non-empty content
\* required of assistant events too
FoldedAsStated(message, contentRequired) ==
    /\ \/ message.type = "AIMessage"
       \/ (message.type = "ToolMessage" /\ message.content /= <<>>)
    /\ contentRequired => message.content /= <<>>

\* the accumulator after a list of events: each folded event's rendered
\* content followed by a blank line, in order
RECURSIVE AccumulatorClaimed(_, _)
AccumulatorClaimed(events, contentRequired) ==
    IF events = <<>> THEN <<>>
    ELSE (IF FoldedAsStated(Head(events), contentRequired)
          THEN RenderContent(Head(events)) \o BlankLine
          ELSE <<>>)
         \o AccumulatorClaimed(Tail(events), contentRequired)

\* between two polls of a cycle whose responses all carried a messages list
\* that never got shorter, every reported event is counted and the
\* accumulator is the one claimed for the reported list; the assistant
\* message is still streaming
AccumulatorIsClaimed(contentRequired) ==
    \A c \in Cycles :
       (poll[c].pc = "waiting" /\ hist[c].grewOnly
          /\ poll[c].processedMessageCount = Len(server[c])) =>
          /\ poll[c].accumulatedContent = AccumulatorClaimed(server[c], contentRequired)
          /\ HasMessage(messages, poll[c].messageId) =>
                MessageOf(messages, poll[c].messageId).streaming = "true"

\* C19 (as stated): an event is folded into the accumulator exactly when its
\* type is AIMessage, or it is a ToolMessage with non-empty content; other
\* events are skipped and counted; each folded event appends its rendered
\* content and a blank line.
C19_FoldedEventsAsStated == AccumulatorIsClaimed(FALSE)

\* C19 (amended): an event is folded into the accumulator exactly when its
\* type is AIMessage or ToolMessage and its content is not empty; every other
\* event (an assistant event with empty content included) is skipped, adds
\* nothing to the accumulator and is counted; each folded event appends its
\* rendered content and a blank line.
C19_FoldedEvents == AccumulatorIsClaimed(TRUE)

\* a skipped event of another type and a folded tool event, both counted
C19_Witness ==
    \E c \in Cycles :
       /\ poll[c].pc = "waiting"
       /\ hist[c].grewOnly
       /\ server[c] = << Ev("HumanMessage", <<"h">>), Ev("ToolMessage", JsonOther) >>
       /\ poll[c].processedMessageCount = 2
       /\ poll[c].accumulatedContent = JsonOther \o BlankLine

\* the rendering the claim C20 gives a folded event: a tool event whose
\* content parses and has an error field (a non-empty one when `truthy`) is
\* 'Error: <error>', else one that parses with found = false is 'Resource not
\* found', anything else is the content itself
RenderClaimed(message, truthy) ==
    IF message.type /= "ToolMessage" THEN message.content
    ELSE LET parsed == JSONParse(message.content) IN
         IF parsed.ok /\ parsed.hasError /\ (truthy => parsed.error /= <<>>)
         THEN ErrorPrefix \o parsed.error
         ELSE IF parsed.ok /\ parsed.found = "false" THEN ResourceNotFound
         ELSE message.content

\* every folded event of a polling cycle whose list never got shorter was
\* folded with the claimed rendering of the event reported at its index
FoldedAsRendered(truthy) ==
    \A c \in Cycles :
       (poll[c].pc = "waiting" /\ hist[c].grewOnly) =>
          \A k \in 1 .. Len(hist[c].folded) :
             LET entry == hist[c].folded[k] IN
             /\ entry.index + 1 \in 1 .. Len(server[c])
             /\ entry.text = RenderClaimed(server[c][entry.index + 1], truthy)

\* a successful status response, whatever its tool events hold, resets the
\* error count and reports nothing to onError or state.error
ParseFailureNotSurfaced ==
    \A c \in Cycles :
       (poll[c].pc = "fetching"
          /\ hist'[c].lastResponse \in {"unfinished", "finishedButRunning", "finished"}) =>
          /\ poll'[c].consecutiveErrors = 0
          /\ onErrorLog' = onErrorLog
          /\ error' = error

\* C20 (as stated): a folded tool event whose content parses with an error
\* field is rendered 'Error: <error>', also when found is false; one that
\* parses with found = false is rendered 'Resource not found'; other and
\* unparseable content, and all assistant content, is used verbatim; a parse
\* failure is not reported and not counted as a poll error.
C20_ToolRenderingAsStated ==
    /\ []FoldedAsRendered(FALSE)
    /\ [][ParseFailureNotSurfaced]_vars

\* C20 (amended): as stated, with the error rendering applying only to an
\* error field whose value is truthy (not empty): content that parses with an
\* empty error field is rendered by the remaining rules ('Resource not found'
\* when found = false, verbatim otherwise).
C20_ToolRendering ==
    /\ []FoldedAsRendered(TRUE)
    /\ [][ParseFailureNotSurfaced]_vars

\* an unparseable tool content folded verbatim after an error rendering that
\* took precedence over found = false, with no error counted or reported
C20_Witness ==
    \E c \in Cycles :
       /\ poll[c].pc = "waiting"
       /\ hist[c].grewOnly
       /\ server[c] = << Ev("ToolMessage", JsonErrorNotFound), Ev("ToolMessage", NotJson) >>
       /\ poll[c].accumulatedContent =
             ErrorPrefix \o <<"x">> \o BlankLine \o NotJson \o BlankLine
       /\ poll[c].consecutiveErrors = 0
       /\ onErrorLog = <<>> /\ error = <<>>

\* C21: a polling cycle ends only in a step that handles a terminal response,
\* or the failure that makes maxConsecutiveErrors (5) failed requests in a
\* row, or a cancellation (its pending request was aborted, or the abort test
\* at the top of the iteration saw an aborted controller); a successful
\* non-terminal response, and a failure that is not the 5th in a row, lead to
\* the inter-poll wait, and the wait leads to the next status request unless
\* a cancellation is seen.
C21_PollingExits ==
    [][\A c \in Cycles :
         /\ (Polling(c) /\ poll'[c].pc = "done") =>
               \/ Answered(c, "finished")
               \/ /\ poll[c].pc = "fetching"
                  /\ hist'[c].lastResponse = "error"
                  /\ hist'[c].failStreak = maxConsecutiveErrors
               \/ poll[c].pc = "fetching" /\ SignalAborted(c)
               \/ poll[c].pc = "waiting" /\ AbortObserved
         /\ (Answered(c, "unfinished") \/ Answered(c, "finishedButRunning")) =>
               poll'[c].pc = "waiting"
         /\ (Answered(c, "error") /\ poll'[c] /= poll[c]
               /\ hist'[c].failStreak < maxConsecutiveErrors) =>
               poll'[c].pc = "waiting"
         /\ (poll[c].pc = "waiting" /\ poll'[c].pc /= "waiting" /\ ~AbortObserved) =>
               poll'[c].pc = "fetching"
      ]_vars

\* still polling after 5 failed requests that were not 5 in a row
C21_Witness ==
    \E c \in Cycles :
       /\ poll[c].pc = "fetching"
       /\ hist[c].failures = maxConsecutiveErrors
       /\ hist[c].failStreak = 1
       /\ poll[c].consecutiveErrors = 1
       /\ ~aborted[c]

\* cycle c takes a step in which it sees its cancellation: its pending send
\* or status request was aborted, or the abort test at the top of an
\* iteration sees an aborted controller
SeesCancellation(c) ==
    /\ poll'[c] /= poll[c]
    /\ \/ (poll[c].pc \in {"sending", "fetching"} /\ SignalAborted(c))
       \/ (poll[c].pc = "waiting" /\ AbortObserved)

\* C22 (as stated): a cycle that is cancelled, during the send request or
\* during polling, leaves state.error as it is, does not call onError and
\* writes no text beginning with 'Error: ' into any message.
C22_CancelNotAnErrorAsStated ==
    [][\A c \in Cycles :
         SeesCancellation(c) =>
            /\ error' = error
            /\ onErrorLog' = onErrorLog
            /\ \A i \in 1 .. Len(messages') :
                  \/ ~IsPrefix(ErrorPrefix, messages'[i].content)
                  \/ (i <= Len(messages) /\ messages'[i] = messages[i])
      ]_vars

\* C23 (as stated): a cycle during whose polling cancel() was called starts no
\* further status request.
C23_NoRequestAfterCancelAsStated ==
    [][\A c \in Cycles :
         hist[c].cancelled => ~(poll[c].pc /= "fetching" /\ poll'[c].pc = "fetching")
      ]_vars

\* a status request of cycle c fails in this step (and is not an aborted one)
FailsNow(c) ==
    poll[c].pc = "fetching" /\ poll'[c] /= poll[c] /\ hist'[c].lastResponse = "error"

\* C24: after a successful non-terminal response the loop waits 2000 ms, after
\* a failed request that is not the 5th in a row it waits 3000 ms, and after
\* a terminal response or the 5th failure in a row it does not wait: the
\* cycle is over; a status request other than the first is issued only when
\* such a wait ends.
C24_InterPollDelays ==
    [][\A c \in Cycles :
         /\ (Answered(c, "unfinished") \/ Answered(c, "finishedButRunning")) =>
               poll'[c].pc = "waiting" /\ poll'[c].delay = 2000
         /\ (FailsNow(c) /\ hist'[c].failStreak < maxConsecutiveErrors) =>
               poll'[c].pc = "waiting" /\ poll'[c].delay = 3000
         /\ (Answered(c, "finished")
               \/ (FailsNow(c) /\ hist'[c].failStreak >= maxConsecutiveErrors)) =>
               poll'[c].pc = "done"
         /\ (poll[c].pc /= "fetching" /\ poll'[c].pc = "fetching") =>
               \/ poll[c].pc = "sending"
               \/ poll[c].pc = "waiting" /\ poll[c].delay \in {2000, 3000}
      ]_vars

\* the 3000 ms wait after a failure that followed a success
C24_Witness ==
    \E c \in Cycles :
       /\ poll[c].pc = "waiting"
       /\ poll[c].delay = 3000
       /\ hist[c].failStreak = 1
       /\ poll[c].accumulatedContent /= <<>>

\* cycle c makes a non-terminal flush in this step although the conversation
\* has been cleared
FlushesCleared(c) == FlushesNow(c) /\ messages = <<>>

\* C25 (as stated): a flush of a still-running poll whose conversation was
\* cleared makes the message list non-empty again.
C25_FlushResurrectsAsStated ==
    [][\A c \in Cycles : FlushesCleared(c) => messages' /= <<>>]_vars

\* C25 (amended): a flush of a still-running poll whose conversation was
\* cleared leaves the message list empty; the message list gets longer only
\* in a step that accepts a submit.
C25_FlushDoesNotResurrect ==
    [][/\ \A c \in Cycles : FlushesCleared(c) => messages' = <<>>
       /\ Len(messages') > Len(messages) => cycles' = cycles + 1
      ]_vars

\* the flush just made found the conversation cleared, and it is still empty
C25_Witness ==
    \E c \in Cycles :
       /\ poll[c].pc = "waiting"
       /\ hist[c].lostFlush
       /\ Trim(poll[c].accumulatedContent) /= <<>>
       /\ messages = <<>>

\* the send request of cycle c fails in this step
SendFailsNow(c) ==
    poll[c].pc = "sending" /\ hist'[c].endedBy = "sendError"

\* C27: when the send request fails (and was not aborted) the cycle is over
\* without any status request, its assistant message has the content
\* 'Error: <message>' and streaming false, state.error is the message,
\* onError has been called once with it, and isLoading is false; the step
\* that accepts the next submit sets state.error to null.
C27_SendFailure ==
    [][/\ \A c \in Cycles :
            SendFailsNow(c) =>
               \E m \in SendErrors :
                  /\ poll'[c].pc = "done"
                  /\ hist'[c].lastResponse = "none"
                  /\ error' = <<m>>
                  /\ onErrorLog' = Append(onErrorLog, m)
                  /\ isLoading' = FALSE
                  /\ HasMessage(messages, poll[c].messageId) =>
                       /\ MessageOf(messages', poll[c].messageId).content = ErrorPrefix \o m
                       /\ MessageOf(messages', poll[c].messageId).streaming = "false"
       /\ (\A c \in Cycles : ~SendFailsNow(c)) => onErrorLog' = onErrorLog
       /\ cycles' /= cycles => error' = <<>>
      ]_vars

\* a failed send, reported once, followed by an accepted submit that reset
\* state.error
C27_Witness ==
    /\ cycles = 2
    /\ hist[1].endedBy = "sendError"
    /\ hist[1].lastResponse = "none"
    /\ onErrorLog = <<HttpErrorMessage>>
    /\ HasMessage(messages, AssistantId(1))
    /\ MessageOf(messages, AssistantId(1)).content = ErrorPrefix \o HttpErrorMessage
    /\ MessageOf(messages, AssistantId(1)).streaming = "false"
    /\ InFlight(2)
    /\ error = <<>>

\* the assistant message of cycle c is in the conversation with streaming
\* true although the cycle is over
LeftStreaming(c) ==
    /\ poll[c].pc = "done"
    /\ HasMessage(messages, AssistantId(c))
    /\ MessageOf(messages, AssistantId(c)).streaming = "true"

\* C28: an assistant message that a finished cycle left with streaming true
\* (the cycle ended on a cancellation) is never changed afterwards: every
\* step either keeps it as it is or empties the conversation (clear()).
C28_LeftStreamingForever ==
    [][\A c \in Cycles :
         LeftStreaming(c) =>
            /\ hist[c].endedBy \in {"abort", "sendAbort"}
            /\ \/ messages' = <<>>
               \/ /\ HasMessage(messages', AssistantId(c))
                  /\ MessageOf(messages', AssistantId(c)) = MessageOf(messages, AssistantId(c))
      ]_vars

\* after a cancel and a new submit: the cancelled cycle's message, partly
\* streamed, and the new cycle's message both have streaming true, and
\* isLoading is true for the new cycle only
C28_Witness ==
    /\ cycles = 2
    /\ LeftStreaming(1)
    /\ hist[1].endedBy = "abort"
    /\ MessageOf(messages, AssistantId(1)).content = <<"a">>
    /\ Polling(2)
    /\ HasMessage(messages, AssistantId(2))
    /\ MessageOf(messages, AssistantId(2)).streaming = "true"
    /\ isLoading

NoStepTwice(completedSteps) ==
    \A j, k \in 1 .. Len(completedSteps) :
       completedSteps[j] = completedSteps[k] => j = k

\* the steps of a completedSteps list
StepsOf(completedSteps) == {completedSteps[k] : k \in 1 .. Len(completedSteps)}

\* the completedSteps of repository id in the list prev, empty when untracked
CompletedOf(prev, repoId) ==
    IF Tracked(prev, repoId) THEN EntryOf(prev, repoId).completedSteps ELSE <<>>

\* C26 as stated: once the boundary has caught a render error, some action
\* is enabled that takes this boundary, in the loaded document, from the
\* fallback state (hasError true) back to rendering its children
C26_RetryAsStated ==
    boundary.hasError =>
       ENABLED (PageNext /\ ~boundary'.hasError /\ document' = document)

\* C30: after any sequence of updateRepositoryStatus calls from empty
\* statuses, each repository id has at most one status entry and no
\* completedSteps list holds a step twice; a step is added to completedSteps
\* only by an update of that repository with status 'completed' and that
\* step, which puts the step at the end (moving it there when it was
\* present); an update for an id neither tracked nor known leaves the
\* status list unchanged. The call made in a step is read from the history
\* lastUpdate and from the status and currentStep it leaves in the entry.
C30_StatusTracker ==
    /\ [](/\ \A j, k \in 1 .. Len(repositoryStatuses) :
                repositoryStatuses[j].id = repositoryStatuses[k].id => j = k
          /\ \A j \in 1 .. Len(repositoryStatuses) :
                NoStepTwice(repositoryStatuses[j].completedSteps))
    /\ [][(boundary' = boundary /\ document' = document) =>
            LET repoId == lastUpdate'.repoId
                completing == lastUpdate'.kind \in {"added", "moved"}
                before == CompletedOf(repositoryStatuses, repoId)
                after == CompletedOf(repositoryStatuses', repoId)
            IN /\ \A other \in RepoIds, s \in Steps :
                     ( /\ s \in StepsOf(CompletedOf(repositoryStatuses', other))
                       /\ s \notin StepsOf(CompletedOf(repositoryStatuses, other)) ) =>
                          /\ other = repoId
                          /\ lastUpdate'.kind = "added"
                          /\ EntryOf(repositoryStatuses', repoId).status = "completed"
                          /\ EntryOf(repositoryStatuses', repoId).currentStep = <<s>>
               /\ completing =>
                     /\ EntryOf(repositoryStatuses', repoId).status = "completed"
                     /\ after = FilterOut(before, EntryOf(repositoryStatuses', repoId).currentStep[1])
                                   \o EntryOf(repositoryStatuses', repoId).currentStep
                     /\ \A other \in RepoIds \ {repoId} :
                           CompletedOf(repositoryStatuses', other) =
                              CompletedOf(repositoryStatuses, other)
               /\ ~completing =>
                     \A other \in RepoIds :
                        CompletedOf(repositoryStatuses', other) =
                           CompletedOf(repositoryStatuses, other)
               /\ lastUpdate'.kind = "ignored" =>
                     /\ repoId \notin KnownIds
                     /\ repositoryStatuses' = repositoryStatuses
               /\ (~Tracked(repositoryStatuses, repoId) /\ repoId \notin KnownIds) =>
                     repositoryStatuses' = repositoryStatuses
       ]_vars

\* both repositories are tracked, the last update moved step 'branch', already
\* completed before 'tag', to the end of the list of r1
C30_Witness ==
    /\ Len(repositoryStatuses) = 2
    /\ lastUpdate = [kind |-> "moved", repoId |-> "r1"]
    /\ Tracked(repositoryStatuses, "r1")
    /\ EntryOf(repositoryStatuses, "r1").completedSteps = <<"tag", "branch">>
    /\ EntryOf(repositoryStatuses, "r1").currentStep = <<"branch">>
    /\ EntryOf(repositoryStatuses, "r1").status = "completed"
    /\ ~Tracked(repositoryStatuses, "r9")

=============================================================================
